---------------------------- MODULE Spec2Model ----------------------------
(***************************************************************************)
(* Store SaaS backend (src/main.py, src/schemas.py): the record store with *)
(* its create operations and the analytics overview derived from it.       *)
(*                                                                         *)
(* Instants are integer ticks, TicksPerDay ticks to a UTC calendar day.    *)
(* Money is an integer number of mills (1/1000 of a currency unit), so     *)
(* that round(x, 2) is a real conversion (to a multiple of 10 mills).      *)
(* The collections are bags of documents (MongoDB gives every document its *)
(* own _id, and promises no order for equal sort keys).  FastAPI serves     *)
(* `def` endpoints from a thread pool, so the writing requests may run     *)
(* while analytics_overview is in flight: it reads the clock, then the     *)
(* today aggregate, then the month-to-date aggregate, each a step of its   *)
(* own; its remaining three aggregations and the return are one step.      *)
(***************************************************************************)
EXTENDS Integers, Sequences, FiniteSets, Bags, TLC

VARIABLES
    db,              \* database.db: "None" (not configured) or "connected"
    clock,           \* the wall clock, datetime.now(timezone.utc), in ticks
    order,           \* collection "order": bag of order documents
    customer,        \* collection "customer": bag of customer documents
    product,         \* collection "product": sequence of product documents
    pc,              \* position of the analytics_overview request in flight
    now,             \* analytics_overview: local `now`
    today,           \* analytics_overview: local `today`
    mtd,             \* analytics_overview: local `mtd`
    avg_order_value, \* analytics_overview: local `avg_order_value`
    response,        \* what the request returned: none yet, HTTP 500, or the report
    writes           \* how many writing requests and seeding passes have run

vars == <<db, clock, order, customer, product, pc, now, today, mtd,
          avg_order_value, response, writes>>

store == <<order, customer, product>>
locals == <<now, today, mtd, avg_order_value>>

-----------------------------------------------------------------------------
(* Bounds of the model *)

TicksPerDay == 2
MaxTicks == 2
MaxWrites == 2
SeedPasses == 1

(* Program constants *)

TopLimit == 5
SeriesDays == 14
Last30Days == 30
Start14Days == 13
SeedMaxDaysBack == 29

-----------------------------------------------------------------------------
(* Generic helpers *)

Min(a, b) == IF a <= b THEN a ELSE b

RECURSIVE SumFn(_)
SumFn(f) ==
    IF DOMAIN f = {} THEN 0
    ELSE LET x == CHOOSE x \in DOMAIN f : TRUE
         IN  f[x] + SumFn([y \in DOMAIN f \ {x} |-> f[y]])

\* sum(...) over a Python list
SumSeq(s) == SumFn(s)

-----------------------------------------------------------------------------
(* datetime: the proleptic calendar, here with 365-day years *)

\* days of the year before the first of month m (m = 13: the days of the year)
DaysBeforeMonth == <<0, 31, 59, 90, 120, 151, 181, 212, 243, 273, 304, 334, 365>>
DaysBefore(m) == DaysBeforeMonth[m]

YearDays == DaysBefore(13)

\* datetime.date() / .year .month .day of an instant
DateOf(t) ==
    LET d   == t \div TicksPerDay
        doy == d % YearDays
        m   == CHOOSE k \in 1..12 : DaysBefore(k) <= doy /\ doy < DaysBefore(k + 1)
    IN  [year |-> 2023 + (d \div YearDays), month |-> m, day |-> doy - DaysBefore(m) + 1]

\* datetime(year, month, day, tzinfo=utc): midnight of a calendar date
Midnight(y, m, d) == (((y - 2023) * YearDays) + DaysBefore(m) + (d - 1)) * TicksPerDay

\* timedelta(days=n)
Days(n) == n * TicksPerDay

\* date.isoformat() and $dateToString "%Y-%m-%d": the zero-padded text, as its fields
IsoFormat(date) == <<date.year, date.month, date.day>>

-----------------------------------------------------------------------------
(* round(x, 2) on mills: to the nearest multiple of 10, ties to even *)

\* round(n / d, 2) for d > 0
Round2Div(n, d) ==
    LET den == 10 * d
        fl  == n \div den
        rem == n % den
    IN  10 * (IF 2 * rem < den THEN fl
              ELSE IF 2 * rem > den THEN fl + 1
              ELSE IF fl % 2 = 0 THEN fl ELSE fl + 1)

Round2(x) == Round2Div(x, 1)

-----------------------------------------------------------------------------
(* Documents *)

\* None, for a string field
Null == "<null>"

\* None, for placed_at (instants are >= 0)
NoDate == -1

\* schemas.OrderItem
OrderItem(product_id, title, price, quantity) ==
    [product_id |-> product_id, title |-> title, price |-> price, quantity |-> quantity]

\* sum(item.price * item.quantity for item in items)
ItemsTotal(items) == SumSeq([i \in 1..Len(items) |-> items[i].price * items[i].quantity])

\* schemas.Order, the fields the aggregator reads
Order(items, total_amount, placed_at) ==
    [items |-> items, total_amount |-> total_amount, placed_at |-> placed_at]

\* schemas.Order: total_amount: float = Field(..., ge=0)
OrderValid(o) == o.total_amount >= 0

\* schemas.Customer, the field the aggregator reads
Customer(segment) == [segment |-> segment]

\* schemas.Product, the fields seed_demo_data reads
Product(title, price) == [title |-> title, price |-> price]

\* str(ObjectId) of the k-th product document
ProductOid == <<"oid1", "oid2", "oid3", "oid4", "oid5", "oid6", "oid7", "oid8">>

-----------------------------------------------------------------------------
(* Inputs *)

\* request bodies of POST /api/orders: the items lists
BasketIds == <<"p1", "p2", "p3", "p4", "p5", "p1">>
BasketTitles == <<"Mug", "Pen", "Cap", "Bag", "Pin", "Mug XL">>
BasketPrices == <<6000, 5000, 4000, 3000, 2000, 2000>>
Basket == [i \in 1..(TopLimit + 1) |-> OrderItem(BasketIds[i], BasketTitles[i], BasketPrices[i], 1)]

Payloads ==
    { <<OrderItem("p1", "Mug", 1004, 1)>>,
      Basket,
      <<OrderItem("p9", "Refund", -500, 1)>> }

\* request bodies of POST /api/customers: the segment
Segments == {Null, ""}

\* request bodies of POST /api/products
NewProducts == {Product("Mug", 1004)}

\* seed_demo_data: the values drawn for random.randint(0, 29) and random.randint(1, 3),
\* and the index of the one product drawn by random.sample(product_docs, k=1)
SeedDaysBack == {Start14Days, SeedMaxDaysBack}
SeedQuantities == {3}
SeedPicks == {1}

\* seed_demo_data: `products` and `customers`
SeedProducts ==
    << Product("Wireless Earbuds", 59990), Product("Smartwatch Pro", 129000),
       Product("4K Monitor", 279000), Product("Mechanical Keyboard", 89000),
       Product("Gaming Mouse", 49000) >>
SeedCustomers ==
    SetToBag({Customer("Wholesale"), Customer("VIP")}) (+) SetToBag({Customer("Retail")})
        (+) SetToBag({Customer("Retail")})

\* a document already in the collection when the service starts: an order
\* without placed_at, whose total_amount is not the sum of its items
LegacyOrder == Order(<<OrderItem("p1", "Mug", 1004, 1)>>, 5000, NoDate)

\* the instant the model starts at: the last day of January, after midnight
StartClock == Midnight(2023, 1, 31) + 1

-----------------------------------------------------------------------------
(* The record store *)

\* database.create_document: insert one document
create_document(coll, doc) == coll (+) SetToBag({doc})

\* mutant of MatchGte: "$gt" for "$gte"
MatchGt(coll, lower) ==
    LET hit == {d \in DOMAIN coll : d.placed_at # NoDate /\ d.placed_at > lower}
    IN  [d \in hit |-> coll[d]]

\* {"$match": {"placed_at": {"$gte": lower}}}: only dates compare with a date
MatchGte(coll, lower) ==
    LET hit == {d \in DOMAIN coll : d.placed_at # NoDate /\ d.placed_at >= lower}
    IN  [d \in hit |-> coll[d]]

\* {"$group": {"_id": None, "revenue": {"$sum": "$total_amount"}, "orders": {"$count": {}}}}
\* one document, or none when nothing was matched
GroupAll(coll) ==
    IF DOMAIN coll = {} THEN <<>>
    ELSE << [revenue |-> SumFn([d \in DOMAIN coll |-> coll[d] * d.total_amount]),
             orders  |-> SumFn([d \in DOMAIN coll |-> coll[d]])] >>

\* next(iter(cursor), None) or {"revenue": 0, "orders": 0}
FirstOrZero(cursor) == IF cursor = <<>> THEN [revenue |-> 0, orders |-> 0] ELSE cursor[1]

-----------------------------------------------------------------------------
(* analytics_overview: the windows *)

\* start_today = datetime(now.year, now.month, now.day, tzinfo=timezone.utc)
StartToday(t) == Midnight(DateOf(t).year, DateOf(t).month, DateOf(t).day)

\* mutant of StartMonth: the first of the month after
StartNextMonth(t) == Midnight(DateOf(t).year, DateOf(t).month + 1, 1)

\* start_month = datetime(now.year, now.month, 1, tzinfo=timezone.utc)
StartMonth(t) == Midnight(DateOf(t).year, DateOf(t).month, 1)

\* last_30 = now - timedelta(days=30)
Last30(t) == t - Days(Last30Days)

\* mutant of Start14: 14 days back for 13
Start14DaysBack(t) == t - Days(SeriesDays)

\* start_14 = now - timedelta(days=13)
Start14(t) == t - Days(Start14Days)

\* db.order.aggregate(pipeline_today), with its default
AggregateToday(coll, t) == FirstOrZero(GroupAll(MatchGte(coll, StartToday(t))))

\* db.order.aggregate(pipeline_mtd), with its default
AggregateMtd(coll, t) == FirstOrZero(GroupAll(MatchGte(coll, StartMonth(t))))

\* mutant of AvgOrderValue: the quotient cut off, not rounded to 2 decimals
AvgOrderValueTruncated(m) == IF m.orders # 0 THEN m.revenue \div m.orders ELSE 0

\* avg_order_value = 0; if mtd.get("orders", 0): round(mtd["revenue"] / mtd["orders"], 2)
AvgOrderValue(m) == IF m.orders # 0 THEN Round2Div(m.revenue, m.orders) ELSE 0

-----------------------------------------------------------------------------
(* analytics_overview: top products *)

\* mutant of GroupKey: grouped by product_id alone
GroupKeyProductOnly(item) == <<item.product_id, "">>

\* the $group key {"product_id": "$items.product_id", "title": "$items.title"}
GroupKey(item) == <<item.product_id, item.title>>

\* the keys met after {"$unwind": "$items"}
GroupKeys(coll) == {GroupKey(d.items[i]) : <<d, i>> \in
                        UNION {{<<e, j>> : j \in 1..Len(e.items)} : e \in DOMAIN coll}}

\* the positions in d.items of the unwound items with key k
ItemsWithKey(d, k) == {j \in 1..Len(d.items) : GroupKey(d.items[j]) = k}

\* "quantity": {"$sum": "$items.quantity"}
SumQuantity(coll, k) ==
    SumFn([d \in DOMAIN coll |->
             coll[d] * SumFn([i \in ItemsWithKey(d, k) |-> d.items[i].quantity])])

\* "$items.price" times "$items.quantity"
ItemRevenue(item) == item.price * item.quantity

\* "revenue": {"$sum": {"$multiply": ["$items.price", "$items.quantity"]}}
SumRevenue(coll, k) ==
    SumFn([d \in DOMAIN coll |->
             coll[d] * SumFn([i \in ItemsWithKey(d, k) |-> ItemRevenue(d.items[i])])])

\* {"$unwind": "$items"}, {"$group": {...}}
GroupProducts(coll) ==
    { [id       |-> k,
       quantity |-> SumQuantity(coll, k),
       revenue  |-> SumRevenue(coll, k)] : k \in GroupKeys(coll) }

\* {"$sort": {"revenue": -1}}: every order the sort may give (equal keys in any order)
RECURSIVE SortRevenueDesc(_)
SortRevenueDesc(S) ==
    IF S = {} THEN {<<>>}
    ELSE UNION { {<<g>> \o rest : rest \in SortRevenueDesc(S \ {g})} :
                 g \in {h \in S : \A o \in S : o.revenue <= h.revenue} }

\* mutant of Limit: no "$limit" stage
LimitNone(s, n) == s

\* {"$limit": 5}
Limit(s, n) == SubSeq(s, 1, Min(n, Len(s)))

\* one element of the list comprehension over the cursor
ProductRow(p) ==
    [product_id |-> p.id[1], title |-> p.id[2], quantity |-> p.quantity,
     revenue |-> Round2(p.revenue)]

\* what db.order.aggregate(pipeline_top_products) may yield, as rows
TopProducts(coll, t) ==
    { [i \in 1..Len(s) |-> ProductRow(s[i])] :
        s \in {Limit(srt, TopLimit) : srt \in SortRevenueDesc(GroupProducts(MatchGte(coll, Last30(t))))} }

-----------------------------------------------------------------------------
(* analytics_overview: the daily time series *)

\* {"$project": {"day": {"$dateToString": ...}}}
DayKey(d) == IsoFormat(DateOf(d.placed_at))

\* by_day = {d["_id"]: d for d in series}, of the $match, $project, $group pipeline
ByDay(coll, t) ==
    LET hit == MatchGte(coll, Start14(t))
    IN  [k \in {DayKey(d) : d \in DOMAIN hit} |->
           LET sameDay == [d \in {e \in DOMAIN hit : DayKey(e) = k} |-> hit[d]]
           IN  GroupAll(sameDay)[1]]

\* days = [(start_14 + timedelta(days=i)).date().isoformat() for i in range(14)]
DaysList(t) == [i \in 1..SeriesDays |-> IsoFormat(DateOf(Start14(t) + Days(i - 1)))]

\* timeseries = [{"day": d, "revenue": ..., "orders": ...} for d in days]
Timeseries(coll, t) ==
    LET by_day == ByDay(coll, t)
        days   == DaysList(t)
    IN  [i \in 1..Len(days) |->
           [day     |-> days[i],
            revenue |-> IF days[i] \in DOMAIN by_day THEN by_day[days[i]].revenue ELSE 0,
            orders  |-> IF days[i] \in DOMAIN by_day THEN by_day[days[i]].orders ELSE 0]]

-----------------------------------------------------------------------------
(* analytics_overview: customer segments *)

\* {"$group": {"_id": "$segment", "count": {"$count": {}}}}
GroupSegments(coll) ==
    { [id |-> sg, count |-> SumFn([c \in {e \in DOMAIN coll : e.segment = sg} |-> coll[c]])] :
        sg \in {c.segment : c \in DOMAIN coll} }

\* {"$sort": {"count": -1}}: every order the sort may give
RECURSIVE SortCountDesc(_)
SortCountDesc(S) ==
    IF S = {} THEN {<<>>}
    ELSE UNION { {<<g>> \o rest : rest \in SortCountDesc(S \ {g})} :
                 g \in {h \in S : \A o \in S : o.count <= h.count} }

\* s["_id"] or "Uncategorized"
SegmentLabel(id) == IF id = Null \/ id = "" THEN "Uncategorized" ELSE id

SegmentRow(sg) == [segment |-> SegmentLabel(sg.id), count |-> sg.count]

\* what the list comprehension over db.customer.aggregate(pipeline_segments) may give
SegmentRows(coll) ==
    { [i \in 1..Len(s) |-> SegmentRow(s[i])] : s \in SortCountDesc(GroupSegments(coll)) }

-----------------------------------------------------------------------------
(* The state machine *)

NoResponse == [status |-> 0]
ConfigError == [status |-> 500, detail |-> "Database not configured"]
ZeroAggregate == [revenue |-> 0, orders |-> 0]

\* the service after start-up: no database configured, or a database whose order
\* collection holds the one document stored before the service set placed_at
Init ==
    /\ db \in {"None", "connected"}
    /\ clock = StartClock
    /\ order = IF db = "connected" THEN SetToBag({LegacyOrder}) ELSE EmptyBag
    /\ customer = EmptyBag
    /\ product = <<>>
    /\ pc = "idle"
    /\ now = 0
    /\ today = ZeroAggregate
    /\ mtd = ZeroAggregate
    /\ avg_order_value = 0
    /\ response = NoResponse
    /\ writes = 0

\* time passes
Tick ==
    /\ pc # "responded"
    /\ clock < StartClock + MaxTicks
    /\ clock' = clock + 1
    /\ UNCHANGED <<db, store, pc, locals, response, writes>>

\* POST /api/customers
create_customer ==
    /\ pc # "responded"
    /\ db = "connected"
    /\ writes < MaxWrites
    /\ writes' = writes + 1
    /\ \E sg \in Segments : customer' = create_document(customer, Customer(sg))
    /\ UNCHANGED <<db, clock, order, product, pc, locals, response>>

\* POST /api/products
create_product ==
    /\ pc # "responded"
    /\ db = "connected"
    /\ writes < MaxWrites
    /\ writes' = writes + 1
    /\ \E p \in NewProducts : product' = Append(product, p)
    /\ UNCHANGED <<db, clock, order, customer, pc, locals, response>>

\* the Order that create_order builds from a payload at instant t
NewOrder(items, t) == Order(items, ItemsTotal(items), t)

\* POST /api/orders
create_order ==
    /\ pc # "responded"
    /\ db = "connected"
    /\ writes < MaxWrites
    /\ writes' = writes + 1
    /\ \E items \in Payloads :
         /\ OrderValid(NewOrder(items, clock))
         /\ order' = create_document(order, NewOrder(items, clock))
    /\ UNCHANGED <<db, clock, customer, product, pc, locals, response>>

\* the order_doc of one pass of the seeding loop over product_docs: product k,
\* quantity q, d days back
SeedOrder(product_docs, k, q, d, t) ==
    LET pr    == product_docs[k]
        items == <<OrderItem(ProductOid[k], pr.title, pr.price, q)>>
    IN  Order(items, Round2(ItemsTotal(items)), t - Days(d))

\* create_document("order", order_doc), for each order_doc of the list
RECURSIVE InsertAll(_, _)
InsertAll(coll, docs) ==
    IF docs = <<>> THEN coll ELSE InsertAll(create_document(coll, Head(docs)), Tail(docs))

\* POST /api/seed: the catalogs where empty, then the passes of "for _ in range(40)",
\* of which the model makes SeedPasses
seed_demo_data ==
    /\ pc # "responded"
    /\ db = "connected"
    /\ writes < MaxWrites
    /\ writes' = writes + 1
    /\ product' = IF Len(product) = 0 THEN SeedProducts ELSE product
    /\ customer' = IF customer = EmptyBag THEN SeedCustomers ELSE customer
    /\ \E draw \in [1..SeedPasses -> SeedPicks \X SeedQuantities \X SeedDaysBack] :
         order' = InsertAll(order,
                     [i \in 1..SeedPasses |->
                        SeedOrder(product', draw[i][1], draw[i][2], draw[i][3], clock)])
    /\ UNCHANGED <<db, clock, pc, locals, response>>

\* GET /api/analytics/overview: "if db is None: raise HTTPException(500)"
overview_not_configured ==
    /\ pc = "idle"
    /\ db = "None"
    /\ response' = ConfigError
    /\ pc' = "responded"
    /\ UNCHANGED <<db, clock, store, locals, writes>>

\* mutant of overview_begin: the "db is None" check left out
overview_begin_unchecked ==
    /\ pc = "idle"
    /\ now' = clock
    /\ pc' = "today"
    /\ UNCHANGED <<db, clock, store, today, mtd, avg_order_value, response, writes>>

\* GET /api/analytics/overview: now = datetime.now(timezone.utc)
overview_begin ==
    /\ pc = "idle"
    /\ db # "None"
    /\ now' = clock
    /\ pc' = "today"
    /\ UNCHANGED <<db, clock, store, today, mtd, avg_order_value, response, writes>>

\* today = next(iter(db.order.aggregate(pipeline_today)), None) or {...}
overview_today ==
    /\ pc = "today"
    /\ today' = AggregateToday(order, now)
    /\ pc' = "mtd"
    /\ UNCHANGED <<db, clock, store, now, mtd, avg_order_value, response, writes>>

\* mtd = next(iter(db.order.aggregate(pipeline_mtd)), None) or {...}; avg_order_value
overview_mtd ==
    /\ pc = "mtd"
    /\ mtd' = AggregateMtd(order, now)
    /\ avg_order_value' = AvgOrderValue(mtd')
    /\ pc' = "report"
    /\ UNCHANGED <<db, clock, store, now, today, response, writes>>

\* the dict that analytics_overview returns
Report(top_products, timeseries, segments) ==
    [today_revenue   |-> Round2(today.revenue),
     today_orders    |-> today.orders,
     mtd_revenue     |-> Round2(mtd.revenue),
     mtd_orders      |-> mtd.orders,
     avg_order_value |-> avg_order_value,
     top_products    |-> top_products,
     timeseries      |-> timeseries,
     segments        |-> segments]

\* mutant of overview_report: the report is also saved in the record store
overview_report_saved ==
    /\ pc = "report"
    /\ \E top_products \in TopProducts(order, now), segments \in SegmentRows(customer) :
         response' = [status |-> 200,
                      body |-> Report(top_products, Timeseries(order, now), segments)]
    /\ pc' = "responded"
    /\ customer' = create_document(customer, Customer("report"))
    /\ UNCHANGED <<db, clock, order, product, locals, writes>>

\* top_products = [...]; timeseries = [...]; segments = [...]; return {...}
overview_report ==
    /\ pc = "report"
    /\ \E top_products \in TopProducts(order, now), segments \in SegmentRows(customer) :
         response' = [status |-> 200,
                      body |-> Report(top_products, Timeseries(order, now), segments)]
    /\ pc' = "responded"
    /\ UNCHANGED <<db, clock, store, locals, writes>>

\* the response has been sent and the frame of the call is gone
overview_done ==
    /\ pc = "responded"
    /\ pc' = "idle"
    /\ response' = NoResponse
    /\ now' = 0
    /\ today' = ZeroAggregate
    /\ mtd' = ZeroAggregate
    /\ avg_order_value' = 0
    /\ UNCHANGED <<db, clock, store, writes>>

Next ==
    \/ Tick
    \/ create_customer
    \/ create_product
    \/ create_order
    \/ seed_demo_data
    \/ overview_not_configured
    \/ overview_begin
    \/ overview_today
    \/ overview_mtd
    \/ overview_report
    \/ overview_done

Spec == Init /\ [][Next]_vars

-----------------------------------------------------------------------------
(* What the claims speak of, stated without the operators of the handler *)

\* a report has just been returned; the store is the one its last step read
Reported == pc = "responded" /\ response.status = 200

Dated(d) == d.placed_at # NoDate

\* how many documents of the order collection are in the set S, and their total_amount
CountOrders(S) == SumFn([d \in S |-> CopiesIn(d, order)])
TotalAmount(S) == SumFn([d \in S |-> CopiesIn(d, order) * d.total_amount])

\* r is x rounded to 2 decimals: a whole number of cents, at most half a cent away
IsRounded2(x, r) == r % 10 = 0 /\ 2 * (r - x) <= 10 /\ 2 * (x - r) <= 10

\* 00:00 UTC of the day of t, and of the first of the month of t
DayStart(t) == t - (t % TicksPerDay)
MonthStart(t) == DayStart(t) - (DateOf(t).day - 1) * TicksPerDay

\* the calendar date after <<year, month, day>>
MonthLength == <<31, 28, 31, 30, 31, 30, 31, 31, 30, 31, 30, 31>>
NextDay(day) ==
    IF day[3] < MonthLength[day[2]] THEN <<day[1], day[2], day[3] + 1>>
    ELSE IF day[2] < 12 THEN <<day[1], day[2] + 1, 1>>
    ELSE <<day[1] + 1, 1, 1>>

\* the orders placed on the calendar date `day`
OrdersOn(day) == {d \in DOMAIN order : Dated(d) /\ IsoFormat(DateOf(d.placed_at)) = day}

-----------------------------------------------------------------------------
(* C1: the time series is the 14 consecutive dates ending today, zero where empty *)

\* C1: every report's timeseries has exactly 14 entries, its last day is the UTC
\* date of `now`, each day is the calendar day after the one before (so each date
\* appears once, oldest first), and a day on which no order was placed has
\* revenue 0 and orders 0.
C1_SeriesDays ==
    Reported =>
        LET ts == response.body.timeseries
        IN  /\ Len(ts) = 14
            /\ ts[14].day = IsoFormat(DateOf(now))
            /\ \A i \in 1..13 : ts[i + 1].day = NextDay(ts[i].day)
            /\ \A i \in 1..14 :
                 \/ ts[i].revenue = 0 /\ ts[i].orders = 0
                 \/ OrdersOn(ts[i].day) # {}

\* a report whose series spans two months and has both empty and non-empty days
C1_Witness ==
    /\ Reported
    /\ LET ts == response.body.timeseries
       IN  /\ ts[1].day[2] # ts[14].day[2]
           /\ \E i \in 1..14 : ts[i].orders > 0
           /\ \E i \in 1..14 : OrdersOn(ts[i].day) = {} /\ ts[i].orders = 0

-----------------------------------------------------------------------------
(* C2: every day of the series counts all the orders of that day *)

\* C2: for every day of the series, the oldest included, `orders` is the number of
\* stored orders placed on that UTC date and `revenue` the sum of their
\* total_amount.
C2_SeriesCounts ==
    Reported =>
        LET ts == response.body.timeseries
        IN  \A i \in 1..Len(ts) :
              /\ ts[i].orders = CountOrders(OrdersOn(ts[i].day))
              /\ ts[i].revenue = TotalAmount(OrdersOn(ts[i].day))

-----------------------------------------------------------------------------
(* C3: one row per label, the uncategorized customers under one label *)

Uncategorized == {c \in DOMAIN customer : c.segment = Null \/ c.segment = ""}

\* C3: segments has one pair per distinct label; "Uncategorized" appears at most
\* once, with the number of customers whose segment is null or ""; the pairs are
\* in non-increasing order of count.
C3_Segments ==
    Reported =>
        LET sg == response.body.segments
        IN  /\ \A i, j \in 1..Len(sg) : sg[i].segment = sg[j].segment => i = j
            /\ \A i \in 1..Len(sg) :
                 sg[i].segment = "Uncategorized" =>
                    sg[i].count = SumFn([c \in Uncategorized |-> CopiesIn(c, customer)])
            /\ \A i \in 1..(Len(sg) - 1) : sg[i].count >= sg[i + 1].count

-----------------------------------------------------------------------------
(* C4: the today and month-to-date windows *)

\* the orders placed at or after `start`, and those of them not after `t`
PlacedFrom(start) == {d \in DOMAIN order : Dated(d) /\ d.placed_at >= start}
PlacedWithin(start, t) == {d \in PlacedFrom(start) : d.placed_at <= t}

\* the step that read the today aggregate, the month-to-date aggregate, and the
\* step that returned the report
ReadToday == pc = "today" /\ pc' = "mtd"
ReadMtd == pc = "mtd" /\ pc' = "report"
Returned == pc = "report" /\ pc' = "responded"

\* C4 as claimed: the orders count of each window is the number of orders placed
\* at or after its start and not after `now`, and its revenue is the sum of their
\* total_amount (to the 2 decimals of the report); both are 0 when there is none.
C4_ClosedWindow ==
    [][ /\ ReadToday =>
             /\ today'.orders = CountOrders(PlacedWithin(DayStart(now), now))
             /\ IsRounded2(TotalAmount(PlacedWithin(DayStart(now), now)), Round2(today'.revenue))
        /\ ReadMtd =>
             /\ mtd'.orders = CountOrders(PlacedWithin(MonthStart(now), now))
             /\ IsRounded2(TotalAmount(PlacedWithin(MonthStart(now), now)), Round2(mtd'.revenue))
      ]_vars

\* C4, amended: the orders count of each window is the number of orders placed at
\* or after its start, those placed after `now` included, and the reported
\* revenue is the sum of their stored total_amount rounded to 2 decimals; orders
\* without placed_at are not counted, and both are 0 when there is none.
C4_OpenWindow ==
    [][ /\ ReadToday =>
             /\ today'.orders = CountOrders(PlacedFrom(DayStart(now)))
             /\ today'.revenue = TotalAmount(PlacedFrom(DayStart(now)))
        /\ ReadMtd =>
             /\ mtd'.orders = CountOrders(PlacedFrom(MonthStart(now)))
             /\ mtd'.revenue = TotalAmount(PlacedFrom(MonthStart(now)))
        /\ Returned =>
             /\ response'.body.today_orders = today.orders
             /\ response'.body.mtd_orders = mtd.orders
             /\ IsRounded2(today.revenue, response'.body.today_revenue)
             /\ IsRounded2(mtd.revenue, response'.body.mtd_revenue)
      ]_vars

\* a today aggregate that counted an order placed after `now`, and left out an
\* order without placed_at and an order of an earlier day
C4_Witness ==
    /\ pc = "mtd"
    /\ today.orders = 1
    /\ today.orders = CountOrders(PlacedFrom(DayStart(now)))
    /\ \E d \in DOMAIN order : Dated(d) /\ d.placed_at > now
    /\ \E d \in DOMAIN order : ~Dated(d)
    /\ \E d \in DOMAIN order : Dated(d) /\ d.placed_at < DayStart(now)

-----------------------------------------------------------------------------
(* C5, C6: the top products *)

\* the line items of the orders placed in the trailing 30 days: <<order, index>>
RecentItems ==
    UNION { {<<d, i>> : i \in 1..Len(d.items)} : d \in PlacedFrom(now - 30 * TicksPerDay) }

\* their groups, and the quantity and revenue of a group
Groups == { <<x[1].items[x[2]].product_id, x[1].items[x[2]].title>> : x \in RecentItems }
ItemsOf(g) ==
    {x \in RecentItems : x[1].items[x[2]].product_id = g[1] /\ x[1].items[x[2]].title = g[2]}
QuantityOf(g) ==
    SumFn([x \in ItemsOf(g) |-> CopiesIn(x[1], order) * x[1].items[x[2]].quantity])
RevenueOf(g) ==
    SumFn([x \in ItemsOf(g) |->
             CopiesIn(x[1], order) * x[1].items[x[2]].price * x[1].items[x[2]].quantity])

RowGroup(row) == <<row.product_id, row.title>>

\* C5: top_products has min(5, G) rows, G the number of groups of the trailing 30
\* days; the rows are in non-increasing order of revenue, and no group left out
\* has a strictly larger revenue than a group that is returned.
C5_TopProducts ==
    Reported =>
        LET rows == response.body.top_products
            returned == {RowGroup(rows[i]) : i \in 1..Len(rows)}
            groups == Groups
        IN  /\ Len(rows) = Min(5, Cardinality(groups))
            /\ Cardinality(returned) = Len(rows)
            /\ returned \subseteq groups
            /\ \A i \in 1..(Len(rows) - 1) : rows[i].revenue >= rows[i + 1].revenue
            /\ \A g \in groups \ returned : \A h \in returned : RevenueOf(g) <= RevenueOf(h)

\* a report of 5 rows out of more groups
C5_Witness ==
    /\ Reported
    /\ Len(response.body.top_products) = 5
    /\ Cardinality(Groups) > 5

\* C6 as claimed: each row is one (product_id, title) group; its quantity is the
\* sum of the quantities and its revenue the sum of price x quantity of the
\* group's items.
C6_RowSums ==
    Reported =>
        LET rows == response.body.top_products
        IN  /\ \A i, j \in 1..Len(rows) : RowGroup(rows[i]) = RowGroup(rows[j]) => i = j
            /\ \A i \in 1..Len(rows) :
                 /\ RowGroup(rows[i]) \in Groups
                 /\ rows[i].quantity = QuantityOf(RowGroup(rows[i]))
                 /\ rows[i].revenue = RevenueOf(RowGroup(rows[i]))

\* C6, amended: each row is one (product_id, title) group; its quantity is the sum
\* of the quantities, and its revenue the sum of price x quantity of the group's
\* items rounded to 2 decimals, whatever the orders' total_amount.
C6_RowSumsRounded ==
    Reported =>
        LET rows == response.body.top_products
        IN  /\ \A i, j \in 1..Len(rows) : RowGroup(rows[i]) = RowGroup(rows[j]) => i = j
            /\ \A i \in 1..Len(rows) :
                 /\ RowGroup(rows[i]) \in Groups
                 /\ rows[i].quantity = QuantityOf(RowGroup(rows[i]))
                 /\ IsRounded2(RevenueOf(RowGroup(rows[i])), rows[i].revenue)

\* a report with two rows of one product_id under two titles, a row that sums the
\* items of two orders, and no row whose revenue is an order's total_amount
C6_Witness ==
    /\ Reported
    /\ LET rows == response.body.top_products
       IN  /\ \E i, j \in 1..Len(rows) :
                rows[i].product_id = rows[j].product_id /\ rows[i].title # rows[j].title
           /\ \E i \in 1..Len(rows) : rows[i].quantity > 1
           /\ \A i \in 1..Len(rows) : \A d \in DOMAIN order : rows[i].revenue # d.total_amount

-----------------------------------------------------------------------------
(* C7: no report without a record store *)

\* C7: while db is None, analytics_overview never gets past its first check (it
\* reads no collection) and never returns a report: the only response is the
\* configuration error.
C7_NotConfigured ==
    db = "None" =>
        /\ pc \in {"idle", "responded"}
        /\ response \in {NoResponse, ConfigError}
        /\ pc = "responded" => response = ConfigError

\* the overview was called without a record store, and failed
C7_Witness == db = "None" /\ pc = "responded" /\ response.status = 500

-----------------------------------------------------------------------------
(* C8: the average order value *)

\* C8: avg_order_value is 0 when the month-to-date aggregate has no order;
\* otherwise it is the month-to-date revenue divided by the month-to-date orders,
\* rounded to 2 decimals (a whole number of cents at most half a cent from the
\* quotient); two orders of 10.00 and 15.50 give 12.75.  The report carries it.
C8_AvgOrderValue ==
    /\ pc \in {"report", "responded"} /\ db # "None" =>
         /\ mtd.orders = 0 => avg_order_value = 0
         /\ mtd.orders > 0 =>
              /\ avg_order_value % 10 = 0
              /\ 2 * (avg_order_value * mtd.orders - mtd.revenue) <= 10 * mtd.orders
              /\ 2 * (mtd.revenue - avg_order_value * mtd.orders) <= 10 * mtd.orders
    /\ Reported => response.body.avg_order_value = avg_order_value
    /\ AvgOrderValue([revenue |-> 10000 + 15500, orders |-> 2]) = 12750
    /\ AvgOrderValue(ZeroAggregate) = 0

\* a report over two month-to-date orders whose mean is not a whole number of cents
C8_Witness ==
    /\ Reported
    /\ mtd.orders = 2
    /\ mtd.revenue % 20 # 0
    /\ response.body.avg_order_value > 0

-----------------------------------------------------------------------------
(* C9: the overview only reads *)

\* C9: no step of analytics_overview, failing or not, changes the order, customer
\* or product collection (only the steps of analytics_overview move pc).
C9_ReadOnly == [][pc' # pc => UNCHANGED store]_vars

\* a report returned from a store that holds orders, customers and products
C9_Witness ==
    /\ Reported
    /\ order # EmptyBag
    /\ customer # EmptyBag
    /\ product # <<>>

-----------------------------------------------------------------------------
(* C10: today never exceeds month-to-date *)

\* C10: in every report today_orders <= mtd_orders and today_revenue <=
\* mtd_revenue, whatever was inserted between the reads (stored total_amount is
\* never negative).
C10_TodayWithinMtd ==
    /\ \A d \in DOMAIN order : d.total_amount >= 0
    /\ pc \in {"report", "responded"} =>
         /\ today.orders <= mtd.orders
         /\ today.revenue <= mtd.revenue
    /\ Reported =>
         /\ response.body.today_orders <= response.body.mtd_orders
         /\ response.body.today_revenue <= response.body.mtd_revenue

\* a report whose month-to-date aggregate counted more orders than its today
\* aggregate although every dated order is of today: one was inserted in between
C10_Witness ==
    /\ Reported
    /\ response.body.today_orders < response.body.mtd_orders
    /\ response.body.today_revenue < response.body.mtd_revenue
    /\ \A d \in DOMAIN order : Dated(d) => d.placed_at >= DayStart(now)

=============================================================================
